---- MODULE Spec2Model ----
(***************************************************************************)
(* Model of the TypeScript SAM debug helper                                *)
(* (src/shared/sam/debugger/typescriptSamDebug.ts) and of the debug-session *)
(* and code-lens helpers of the SAM integration test (sam.test.ts).        *)
(*                                                                         *)
(* JavaScript values: an absent string is the token Undefined, an optional *)
(* non-string value is a tuple, <<>> for undefined and <<v>> for v.        *)
(***************************************************************************)
EXTENDS Integers, Sequences, FiniteSets, TLC

VARIABLES
    pc,          \* position of the TypeScript launch flow
    input,       \* the config as it was handed to makeTypescriptConfig
    config,      \* the caller's SamLaunchRequestArgs object (mutated in place)
    launch,      \* <<>> or <<the NodejsDebugConfiguration returned>>
    error,       \* message of the Error thrown, or Undefined
    fs,          \* the directory tree under config.codeRoot
    procs,       \* subprocesses started so far, in order
    written,     \* files written so far, in order
    lookups,     \* calls of getSamProjectDirPathForFile so far
    compiled     \* whether compileTypeScript was called, whether it reached the
                 \* compile step, and what hasTypeScriptFilesRecursive answered

VARIABLES
    dpc,         \* position of startDebugger and of the test around it
    target,      \* the target startDebugger was called with
    success,     \* the success promise: its state and its rejection reason
    sessionLog,  \* the sessionLog array
    stopCalls,   \* calls of stopDebugger made by the termination listener
    listening,   \* whether the termination listener is registered
    events,      \* debug sessions terminated so far
    lastSession, \* <<>> or <<the session terminated last>>
    firstRuntime \* <<>> or <<the first terminated session that has a runtime>>

VARIABLES
    lpc,         \* position of getAddConfigCodeLens inside waitUntil
    elapsed,     \* milliseconds waitUntil has spent sleeping
    lensOutcome, \* what getCodeLenses did in the last attempt
    lensResult,  \* <<>> (undefined) or <<the list returned to the caller>>
    lensError    \* the exception that reached the caller, or Undefined

tsVars == <<pc, input, config, launch, error, fs, procs, written, lookups, compiled>>

dbgVars == <<dpc, target, success, sessionLog, stopCalls, listening, events,
             lastSession, firstRuntime>>

lensVars == <<lpc, elapsed, lensOutcome, lensResult, lensError>>

vars == <<tsVars, dbgVars, lensVars>>

(***************************************************************************)
(* Bounds                                                                  *)
(***************************************************************************)
\* entries of the project tree, for the plain launch configs
MaxNodes == 3
\* entries of the project tree, for every other launch config
SampleNodes == 1
\* debug sessions that terminate during one debug run
MaxEvents == 3
\* code lenses getCodeLenses reports for one document
MaxLenses == 2

(***************************************************************************)
(* Test constants                                                          *)
(***************************************************************************)
CODELENS_TIMEOUT == 60000
CODELENS_RETRY_INTERVAL == 200

(***************************************************************************)
(* JavaScript helpers                                                      *)
(***************************************************************************)
Undefined == "<undefined>"

\* !s for a string-or-undefined value
Falsy(s) == s = Undefined \/ s = ""

\* a ?? b for an optional value held as a tuple
Coalesce(opt, dflt) == IF opt = <<>> THEN dflt ELSE opt[1]

\* { ...base, ...over }
Compose(base, over) ==
    [k \in DOMAIN base \cup DOMAIN over |->
        IF k \in DOMAIN over THEN over[k] ELSE base[k]]

(***************************************************************************)
(* File names are sequences of characters, so that substr(-3) is computed. *)
(***************************************************************************)
NameXTs == <<"x", ".", "t", "s">>
NameYJs == <<"y", ".", "j", "s">>
NameZTsx == <<"z", ".", "t", "s", "x">>
NameTsconfig == <<"t", "s", "c", "o", "n", "f", "i", "g", ".", "j", "s", "o", "n">>

\* the order in which readdir lists the entries of a directory
NameOrder == <<NameTsconfig, NameXTs, NameYJs, NameZTsx>>

Names == {NameOrder[i] : i \in DOMAIN NameOrder}

\* file.substr(-3)
SubstrLast3(file) ==
    IF Len(file) <= 3 THEN file ELSE SubSeq(file, Len(file) - 2, Len(file))

(***************************************************************************)
(* A directory tree: a set of nodes [path, dir], path relative to the      *)
(* root, every node's parent being the root or a directory node.           *)
(***************************************************************************)
DirPaths(tree) == {<<>>} \cup {n.path : n \in {m \in tree : m.dir}}

FreeNames(tree, p) == {n \in Names : \A m \in tree : m.path # Append(p, n)}

AddNode(tree) ==
    UNION {{tree \cup {[path |-> Append(p, nm), dir |-> d]} :
                nm \in FreeNames(tree, p), d \in BOOLEAN} :
           p \in DirPaths(tree)}

RECURSIVE Trees(_)
Trees(n) ==
    IF n = 0 THEN {{}}
    ELSE LET smaller == Trees(n - 1)
         IN smaller \cup UNION {AddNode(t) : t \in smaller}

\* fs.readdirSync(dir) / fs.readdir(dir): the names of dir's entries
readdirSync(tree, dir) ==
    LET present(i) == \E n \in tree : n.path = Append(dir, NameOrder[i])
        RECURSIVE List(_)
        List(i) ==
            IF i > Len(NameOrder) THEN <<>>
            ELSE IF present(i) THEN <<NameOrder[i]>> \o List(i + 1)
            ELSE List(i + 1)
    IN List(1)

\* fs.statSync(p).isDirectory()
isDirectory(tree, p) == \E n \in tree : n.path = p /\ n.dir

(***************************************************************************)
(* hasTypeScriptFilesRecursive(dir)                                        *)
(***************************************************************************)
DotTs == <<".", "t", "s">>

RECURSIVE hasTypeScriptFilesRecursive(_, _)
hasTypeScriptFilesRecursive(tree, dir) ==
    LET files == readdirSync(tree, dir)
        RECURSIVE Loop(_)
        Loop(i) ==
            IF i > Len(files) THEN FALSE
            ELSE LET file == files[i]
                 IN IF SubstrLast3(file) = DotTs THEN TRUE
                    ELSE IF isDirectory(tree, Append(dir, file))
                            /\ hasTypeScriptFilesRecursive(tree, Append(dir, file))
                         THEN TRUE
                    ELSE Loop(i + 1)
    IN Loop(1)

(***************************************************************************)
(* Paths and the helpers imported from other modules                       *)
(***************************************************************************)
WorkspaceTemplate == "/ws/app/template.yaml"
DocumentPath == "/ws/app/src/app.js"
PackageJson == "/ws/app/package.json"
BuildDir == "/tmp/build"
TmpTemplates == {"/tmp/build/app-template.yaml", "/ws/app/.tmp-template.yaml"}

\* pathutil.normalize(p)
normalize(p) ==
    CASE p = "C:\\ws\\app" -> "C:/ws/app"
      [] p = "/ws/app/" -> "/ws/app"
      [] OTHER -> p

\* path.dirname(p)
dirname(p) == IF p = PackageJson THEN "/ws/app" ELSE "."

\* isImageLambdaConfig(config)
isImageLambdaConfig(cfg) == cfg.packageType = "Image"

(***************************************************************************)
(* The effects of one call: the caller's config object as the call leaves  *)
(* it, the value returned, the Error thrown, and what the call did to the  *)
(* world (files written, project lookups made, subprocesses started).      *)
(***************************************************************************)
Begin(cfg) ==
    [config |-> cfg, launch |-> <<>>, error |-> Undefined,
     written |-> <<>>, lookups |-> 0, procs |-> <<>>]

Throw(st, msg) == [st EXCEPT !.error = msg]

(***************************************************************************)
(* makeTypescriptConfig(config), statement by statement.  `found` is what  *)
(* findParentProjectFile answers (Undefined: no package.json), `tmpl` what *)
(* makeInputTemplate answers (Undefined: it throws).                       *)
(***************************************************************************)
\* if (!config.baseBuildDir) throw ...
CheckBaseBuildDir(st) ==
    IF Falsy(st.config.baseBuildDir)
    THEN Throw(st, "invalid state: config.baseBuildDir was not set")
    ELSE st

\* getSamProjectDirPathForFile(filepath)
getSamProjectDirPathForFile(st, filepath, found) ==
    LET looked == [st EXCEPT !.lookups = @ + 1]
    IN IF found = Undefined
       THEN Throw(looked, "Cannot find package.json for: " \o filepath)
       ELSE [looked EXCEPT !.config.codeRoot = normalize(dirname(found))]

\* if (!config.codeRoot) { ... last-resort discovery ... }
DiscoverCodeRoot(st, found) ==
    IF st.error # Undefined \/ ~Falsy(st.config.codeRoot) THEN st
    ELSE LET filepath == IF st.config.templatePath # Undefined
                         THEN st.config.templatePath
                         ELSE st.config.documentUri
             got == getSamProjectDirPathForFile(st, filepath, found)
         IN IF got.error = Undefined /\ Falsy(got.config.codeRoot)
            THEN Throw(got, "missing launch.json, template.yaml, and failed to discover project root")
            ELSE got

\* config.codeRoot = pathutil.normalize(config.codeRoot)
NormalizeCodeRoot(st) ==
    IF st.error # Undefined THEN st
    ELSE [st EXCEPT !.config.codeRoot = normalize(@)]

\* variant: the workspace template is used when the config names one
GenerateTemplateIfMissing(st, tmpl) ==
    IF st.error # Undefined THEN st
    ELSE IF st.config.templatePath # Undefined THEN st
    ELSE IF tmpl = Undefined THEN Throw(st, "makeInputTemplate failed")
    ELSE [st EXCEPT !.config.templatePath = tmpl, !.written = Append(@, tmpl)]

\* config.templatePath = await makeInputTemplate(config)
GenerateTemplate(st, tmpl) ==
    IF st.error # Undefined THEN st
    ELSE IF tmpl = Undefined THEN Throw(st, "makeInputTemplate failed")
    ELSE [st EXCEPT !.config.templatePath = tmpl, !.written = Append(@, tmpl)]

\* if (isImageLambda && !config.noDebug) config.containerEnvVars = {...}
SetContainerEnvVars(st) ==
    IF st.error # Undefined THEN st
    ELSE IF isImageLambdaConfig(st.config) /\ ~st.config.noDebug
    THEN [st EXCEPT !.config.containerEnvVars =
            <<[NODE_OPTIONS |-> <<"--inspect-brk=0.0.0.0:", st.config.debugPort,
                                  " --max-http-header-size 81920">>]>>]
    ELSE st

\* const nodejsLaunchConfig = { ...config, type: 'node', ... }
MakeLaunchConfig(st) ==
    IF st.error # Undefined THEN st
    ELSE LET cfg == st.config
             mappings == cfg.pathMappings
             userMapped == Len(mappings) > 0
         IN [st EXCEPT !.launch = <<Compose(cfg,
                [type |-> "node",
                 request |-> IF cfg.noDebug THEN "launch" ELSE "attach",
                 runtimeFamily |-> "NodeJS",
                 preLaunchTask |-> Undefined,
                 address |-> "localhost",
                 port |-> Coalesce(cfg.debugPort, -1),
                 localRoot |-> IF userMapped THEN mappings[1].localRoot ELSE cfg.codeRoot,
                 remoteRoot |-> IF userMapped THEN mappings[1].remoteRoot ELSE "/var/task",
                 protocol |-> "inspector",
                 stopOnEntry |-> <<Coalesce(cfg.stopOnEntry, FALSE)>>,
                 skipFiles |-> <<"/var/runtime/node_modules/**/*.js", "<node_internals>/**/*.js">>])>>]

\* variant: baseBuildDir is checked after the project root is settled
makeTypescriptConfigLateCheck(cfg, found, tmpl) ==
    MakeLaunchConfig(
        SetContainerEnvVars(
            GenerateTemplate(
                CheckBaseBuildDir(
                    NormalizeCodeRoot(DiscoverCodeRoot(Begin(cfg), found))),
                tmpl)))

\* variant: the config step compiles the project itself
makeTypescriptConfigCompiling(cfg, found, tmpl) ==
    LET st == MakeLaunchConfig(
                SetContainerEnvVars(
                    GenerateTemplate(
                        NormalizeCodeRoot(
                            DiscoverCodeRoot(CheckBaseBuildDir(Begin(cfg)), found)),
                        tmpl)))
    IN IF st.error = Undefined /\ cfg.target = "code"
       THEN [st EXCEPT !.procs = <<"tsc --project " \o cfg.baseBuildDir
                                    \o "/output/awsToolkitSamLocalResource">>]
       ELSE st

makeTypescriptConfig(cfg, found, tmpl) ==
    MakeLaunchConfig(
        SetContainerEnvVars(
            GenerateTemplate(
                NormalizeCodeRoot(
                    DiscoverCodeRoot(CheckBaseBuildDir(Begin(cfg)), found)),
                tmpl)))

(***************************************************************************)
(* compileTypeScript(config): `writeOk` and `runOk` say whether            *)
(* writeFileSync and the tsc ChildProcess complete without throwing.       *)
(***************************************************************************)
TsconfigPath(cfg) == cfg.baseBuildDir \o "/output/awsToolkitSamLocalResource/tsconfig.json"

CompileCommand(cfg) == "tsc --project " \o cfg.baseBuildDir \o "/output/awsToolkitSamLocalResource"

\* (await readdir(config.codeRoot)).includes('tsconfig.json')
IncludesTsconfig(tree) ==
    LET entries == readdirSync(tree, <<>>)
    IN \E i \in DOMAIN entries : entries[i] = NameTsconfig

\* the condition guarding the compile step
ShouldCompile(cfg, tree) ==
    /\ cfg.target = "code"
    /\ (IncludesTsconfig(tree) \/ hasTypeScriptFilesRecursive(tree, <<>>))

compileTypeScript(cfg, tree, writeOk, runOk) ==
    LET st == [Begin(cfg) EXCEPT !.launch = <<cfg>>]
    IN IF ~ShouldCompile(cfg, tree) THEN st
       ELSE IF ~writeOk THEN Throw(st, "Failed to compile typescript Lambda")
       ELSE LET ran == [st EXCEPT !.written = <<TsconfigPath(cfg)>>,
                                  !.procs = <<CompileCommand(cfg)>>]
            IN IF runOk THEN ran
               ELSE Throw(ran, "Failed to compile typescript Lambda")

(***************************************************************************)
(* The launch flow                                                         *)
(***************************************************************************)
Targets == {"code", "template", "api"}

Mapping1 == [localRoot |-> "/ws/app/src", remoteRoot |-> "/var/task/src"]
Mapping2 == [localRoot |-> "/ws/other", remoteRoot |-> "/opt"]

\* configs that differ in what decides the control flow of the helper
FlowConfigs ==
    [baseBuildDir : {Undefined, "", BuildDir},
     codeRoot : {Undefined, "/ws/app", "C:\\ws\\app"},
     templatePath : {Undefined, WorkspaceTemplate},
     documentUri : {DocumentPath},
     target : Targets,
     noDebug : {FALSE},
     packageType : {"Zip"},
     debugPort : {<<>>},
     pathMappings : {<<>>},
     stopOnEntry : {<<>>},
     containerEnvVars : {<<>>}]

\* configs that differ in the options copied into the node launch config
OptionConfigs ==
    [baseBuildDir : {BuildDir},
     codeRoot : {"/ws/app"},
     templatePath : {WorkspaceTemplate},
     documentUri : {DocumentPath},
     target : {"code"},
     noDebug : BOOLEAN,
     packageType : {"Zip", "Image"},
     debugPort : {<<>>, <<5858>>},
     pathMappings : {<<>>, <<Mapping1>>, <<Mapping1, Mapping2>>},
     stopOnEntry : {<<>>, <<TRUE>>, <<FALSE>>},
     containerEnvVars : {<<>>}]

Configs == FlowConfigs \cup OptionConfigs

\* the launch configs of one plain project, one per target
PlainConfigs ==
    {c \in FlowConfigs :
        /\ c.baseBuildDir = BuildDir /\ c.codeRoot = "/ws/app"
        /\ c.templatePath = WorkspaceTemplate /\ ~c.noDebug
        /\ c.packageType = "Zip"}

InitWith(cfgs, trees) ==
    /\ pc = "start"
    /\ input \in cfgs
    /\ config = input
    /\ launch = <<>>
    /\ error = Undefined
    /\ fs \in trees
    /\ procs = <<>>
    /\ written = <<>>
    /\ lookups = 0
    /\ compiled = [called |-> FALSE, attempted |-> FALSE, found |-> <<>>]

\* no debug run is under way
DebugIdle ==
    /\ dpc = "idle"
    /\ target = "template"
    /\ success = [state |-> "pending", reason |-> <<>>]
    /\ sessionLog = <<>>
    /\ stopCalls = 0
    /\ listening = FALSE
    /\ events = 0
    /\ lastSession = <<>>
    /\ firstRuntime = <<>>

\* no code-lens query is under way
LensIdle ==
    /\ lpc = "idle"
    /\ elapsed = 0
    /\ lensOutcome = [kind |-> "none", lenses |-> <<>>]
    /\ lensResult = <<>>
    /\ lensError = Undefined

\* every launch config over the small projects, and the plain launch
\* configs over every project tree
Init ==
    /\ \/ InitWith(Configs, Trees(SampleNodes))
       \/ InitWith(PlainConfigs, Trees(MaxNodes))
    /\ DebugIdle
    /\ LensIdle

\* the debug adapter calls makeTypescriptConfig(config)
MakeTypescriptConfig ==
    /\ pc = "start"
    /\ \E found \in {Undefined, PackageJson}, tmpl \in TmpTemplates \cup {Undefined} :
        LET st == makeTypescriptConfig(config, found, tmpl)
        IN /\ config' = st.config
           /\ launch' = st.launch
           /\ error' = st.error
           /\ written' = written \o st.written
           /\ lookups' = lookups + st.lookups
           /\ procs' = procs \o st.procs
           /\ pc' = IF st.error = Undefined THEN "configured" ELSE "failed"
    /\ UNCHANGED <<input, fs, compiled, dbgVars, lensVars>>

\* invokeTypescriptLambda(ctx, config), up to the end of the SAM build that
\* invokeLambdaFunction runs before it calls onAfterBuild
InvokeTypescriptLambda ==
    /\ pc = "configured"
    /\ launch' = <<Compose(launch[1],
                    [samLocalInvokeCommand |-> "DefaultSamLocalInvokeCommand",
                     onWillAttachDebugger |-> "waitForPort"])>>
    /\ procs' = Append(procs, "sam build")
    /\ \E buildOk \in BOOLEAN :
        /\ pc' = IF buildOk THEN "afterBuild" ELSE "failed"
        /\ error' = IF buildOk THEN error ELSE "sam build failed"
    /\ UNCHANGED <<input, config, fs, written, lookups, compiled, dbgVars, lensVars>>

\* const onAfterBuild = () => compileTypeScript(config)
OnAfterBuild ==
    /\ pc = "afterBuild"
    /\ \E writeOk \in BOOLEAN, runOk \in BOOLEAN :
        LET st == compileTypeScript(launch[1], fs, writeOk, runOk)
        IN /\ error' = st.error
           /\ written' = written \o st.written
           /\ procs' = procs \o st.procs
           /\ pc' = IF st.error = Undefined THEN "built" ELSE "failed"
           /\ compiled' =
                [called |-> TRUE,
                 attempted |-> ShouldCompile(launch[1], fs),
                 found |-> IF launch[1].target = "code" /\ ~IncludesTsconfig(fs)
                           THEN <<hasTypeScriptFilesRecursive(fs, <<>>)>>
                           ELSE <<>>]
    /\ UNCHANGED <<input, config, launch, fs, lookups, dbgVars, lensVars>>

\* the rest of invokeLambdaFunction: sam local invoke, attach, return config
SamLocalInvoke ==
    /\ pc = "built"
    /\ procs' = Append(procs, "sam local invoke")
    /\ pc' = "done"
    /\ UNCHANGED <<input, config, launch, error, fs, written, lookups, compiled, dbgVars, lensVars>>

Next ==
    \/ MakeTypescriptConfig
    \/ InvokeTypescriptLambda
    \/ OnAfterBuild
    \/ SamLocalInvoke

Spec == Init /\ [][Next]_vars

(***************************************************************************)
(* startDebugger of the integration test, for scenario 0                   *)
(***************************************************************************)
ScenarioRuntime == "nodejs10.x"
ScenarioDisplayName == "nodejs10.x (ZIP)"
TestConfigName == "test-config-0"

\* the debug sessions that may terminate: the session under test, sessions
\* of other configs or runtimes, and coprocesses (runtime absent or empty)
Sessions ==
    {[name |-> n, configuration |-> [name |-> n, runtime |-> r]] :
        n \in {TestConfigName, "Remote Process [0]"},
        r \in {Undefined, "", ScenarioRuntime, "python3.7"}}

\* startEnd.padEnd(5, ' ')
PadEnd5(startEnd) == IF startEnd = "END" THEN "END  " ELSE startEnd

\* target.toString()[0]
FirstChar(tgt) == IF tgt = "api" THEN "a" ELSE "t"

\* logSession(startEnd, name)
logSession(log, tgt, startEnd, name) ==
    Append(log, "scenario 0." \o FirstChar(tgt) \o " " \o PadEnd5(startEnd) \o " "
                \o tgt \o "/" \o ScenarioDisplayName \o ": " \o name)

\* validateSamDebugSession: <<>> or <<the message>>
validateSamDebugSession(debugSession, expectedName, expectedRuntime) ==
    IF debugSession.configuration.name # expectedName
       \/ debugSession.configuration.runtime # expectedRuntime
    THEN <<[text |-> "Unexpected DebugSession", expectedName |-> expectedName,
            expectedRuntime |-> expectedRuntime, session |-> debugSession]>>
    ELSE <<>>

\* resolve() and reject(e) of a promise: the first settlement stands
resolve(promise) ==
    IF promise.state = "pending" THEN [promise EXCEPT !.state = "fulfilled"]
    ELSE promise

reject(promise, e) ==
    IF promise.state = "pending" THEN [state |-> "rejected", reason |-> e]
    ELSE promise

\* variant: every terminated session is validated, coprocess or not
onDidTerminateNoCoprocessCheck(st, session, tgt) ==
    LET logged == [st EXCEPT !.sessionLog = logSession(@, tgt, "END", session.name)]
        failMsg == validateSamDebugSession(session, TestConfigName, ScenarioRuntime)
        rejected == IF failMsg # <<>>
                    THEN [logged EXCEPT !.success = reject(@, failMsg)]
                    ELSE logged
    IN [rejected EXCEPT !.success = resolve(@), !.stopCalls = @ + 1]

\* variant: resolve() is called before the validation result is looked at
onDidTerminateResolveFirst(st, session, tgt) ==
    LET logged == [st EXCEPT !.sessionLog = logSession(@, tgt, "END", session.name)]
        failMsg == validateSamDebugSession(session, TestConfigName, ScenarioRuntime)
    IN IF Falsy(session.configuration.runtime) THEN logged
       ELSE LET resolved == [logged EXCEPT !.success = resolve(@)]
                rejected == IF failMsg # <<>>
                            THEN [resolved EXCEPT !.success = reject(@, failMsg)]
                            ELSE resolved
            IN [rejected EXCEPT !.stopCalls = @ + 1]

\* the listener given to vscode.debug.onDidTerminateDebugSession
onDidTerminateDebugSession(st, session, tgt) ==
    LET logged == [st EXCEPT !.sessionLog = logSession(@, tgt, "END", session.name)]
        failMsg == validateSamDebugSession(session, TestConfigName, ScenarioRuntime)
    IN IF Falsy(session.configuration.runtime) THEN logged
       ELSE LET rejected == IF failMsg # <<>>
                            THEN [logged EXCEPT !.success = reject(@, failMsg)]
                            ELSE logged
            IN [rejected EXCEPT !.success = resolve(@), !.stopCalls = @ + 1]

\* the launch helper is not under way
TsIdle ==
    /\ pc = "idle"
    /\ input = [target |-> "template"]
    /\ config = input
    /\ launch = <<>>
    /\ error = Undefined
    /\ fs = {}
    /\ procs = <<>>
    /\ written = <<>>
    /\ lookups = 0
    /\ compiled = [called |-> FALSE, attempted |-> FALSE, found |-> <<>>]

\* testTarget is about to call startDebugger
InitDebug ==
    /\ TsIdle
    /\ LensIdle
    /\ dpc = "init"
    /\ target \in {"api", "template"}
    /\ success = [state |-> "pending", reason |-> <<>>]
    /\ sessionLog = <<>>
    /\ stopCalls = 0
    /\ listening = FALSE
    /\ events = 0
    /\ lastSession = <<>>
    /\ firstRuntime = <<>>

\* startDebugger up to the call of vscode.debug.startDebugging: the promise
\* is created and its executor registers the listener
StartDebugger ==
    /\ dpc = "init"
    /\ listening' = TRUE
    /\ dpc' = "starting"
    /\ UNCHANGED <<target, success, sessionLog, stopCalls, events, lastSession,
                   firstRuntime, tsVars, lensVars>>

\* startDebugging fails: the rejection handler rethrows
StartDebuggingFailed ==
    /\ dpc = "starting"
    /\ dpc' = "threw"
    /\ UNCHANGED <<target, success, sessionLog, stopCalls, listening, events,
                   lastSession, firstRuntime, tsVars, lensVars>>

\* startDebugging completes: logSession('START', activeDebugSession.name)
StartDebuggingDone ==
    /\ dpc = "starting"
    /\ \E s \in Sessions :
        sessionLog' = logSession(sessionLog, target, "START", s.name)
    /\ dpc' = "continue1"
    /\ UNCHANGED <<target, success, stopCalls, listening, events, lastSession,
                   firstRuntime, tsVars, lensVars>>

\* await sleep(400); await continueDebugger(), three times
ContinueDebugger ==
    /\ dpc \in {"continue1", "continue2", "continue3"}
    /\ dpc' = CASE dpc = "continue1" -> "continue2"
                 [] dpc = "continue2" -> "continue3"
                 [] OTHER -> "awaiting"
    /\ UNCHANGED <<target, success, sessionLog, stopCalls, listening, events,
                   lastSession, firstRuntime, tsVars, lensVars>>

\* await success
AwaitSuccess ==
    /\ dpc = "awaiting"
    /\ success.state # "pending"
    /\ dpc' = IF success.state = "fulfilled" THEN "passed" ELSE "threw"
    /\ UNCHANGED <<target, success, sessionLog, stopCalls, listening, events,
                   lastSession, firstRuntime, tsVars, lensVars>>

\* the editor reports that a debug session terminated
TerminateDebugSession ==
    /\ listening
    /\ events < MaxEvents
    /\ \E session \in Sessions :
        LET st == onDidTerminateDebugSession(
                    [success |-> success, sessionLog |-> sessionLog,
                     stopCalls |-> stopCalls], session, target)
        IN /\ success' = st.success
           /\ sessionLog' = st.sessionLog
           /\ stopCalls' = st.stopCalls
           /\ lastSession' = <<session>>
           /\ firstRuntime' = IF firstRuntime = <<>> /\ ~Falsy(session.configuration.runtime)
                               THEN <<session>> ELSE firstRuntime
    /\ events' = events + 1
    /\ UNCHANGED <<dpc, target, listening, tsVars, lensVars>>

\* afterEach, after the test passed, failed or timed out: the listener is disposed
AfterEach ==
    /\ dpc \in {"threw", "passed", "awaiting"}
    /\ listening' = FALSE
    /\ dpc' = "disposed"
    /\ UNCHANGED <<target, success, sessionLog, stopCalls, events, lastSession,
                   firstRuntime, tsVars, lensVars>>

NextDebug ==
    \/ StartDebugger
    \/ StartDebuggingFailed
    \/ StartDebuggingDone
    \/ ContinueDebugger
    \/ AwaitSuccess
    \/ TerminateDebugSession
    \/ AfterEach

SpecDebug == InitDebug /\ [][NextDebug]_vars

(***************************************************************************)
(* getAddConfigCodeLens of the integration test                            *)
(***************************************************************************)
AddConfigCommand == "aws.pickAddSamDebugConfiguration"

\* a code lens: command is <<>> (undefined) or <<[command, arguments]>>,
\* arguments is <<>> (undefined) or <<the argument list>>
Commands ==
    [command : {AddConfigCommand, "editor.action.showReferences"},
     arguments : {<<>>, << <<"uri", "range">> >>, << <<"input", "uri", "range">> >>}]

CodeLenses == {[command |-> <<>>]} \cup {[command |-> <<c>>] : c \in Commands}

RECURSIVE LensLists(_)
LensLists(n) ==
    IF n = 0 THEN {<<>>}
    ELSE LET shorter == LensLists(n - 1)
         IN shorter \cup {Append(l, c) : l \in {x \in shorter : Len(x) = n - 1},
                                         c \in CodeLenses}

\* what one call of getCodeLenses(documentUri) may do
LensOutcomes ==
    {[kind |-> "throw", lenses |-> <<>>], [kind |-> "undefined", lenses |-> <<>>]}
    \cup {[kind |-> "list", lenses |-> l] : l \in LensLists(MaxLenses)}

\* variant: any command with three arguments is kept
IsAddConfigLensAnyCommand(codeLens) ==
    /\ codeLens.command # <<>>
    /\ codeLens.command[1].arguments # <<>>
    /\ Len(codeLens.command[1].arguments[1]) = 3

\* the predicate given to codeLenses.filter
IsAddConfigLens(codeLens) ==
    IF /\ codeLens.command # <<>>
       /\ codeLens.command[1].arguments # <<>>
       /\ Len(codeLens.command[1].arguments[1]) = 3
    THEN codeLens.command[1].command = AddConfigCommand
    ELSE FALSE

\* the async callback given to waitUntil: one attempt
AddConfigAttempt(outcome) ==
    IF outcome.kind = "throw" THEN [value |-> <<>>, error |-> Undefined]
    ELSE IF outcome.kind = "undefined" \/ Len(outcome.lenses) = 0
    THEN [value |-> <<>>, error |-> Undefined]
    ELSE LET codeLenses == SelectSeq(outcome.lenses, IsAddConfigLens)
         IN IF Len(codeLenses) > 0
            THEN [value |-> <<codeLenses>>, error |-> Undefined]
            ELSE [value |-> <<>>, error |-> Undefined]

\* the test is about to call getAddConfigCodeLens
InitLens ==
    /\ TsIdle
    /\ DebugIdle
    /\ lpc = "attempt"
    /\ elapsed = 0
    /\ lensOutcome = [kind |-> "none", lenses |-> <<>>]
    /\ lensResult = <<>>
    /\ lensError = Undefined

\* waitUntil calls the callback once: a result other than undefined is
\* returned, an exception propagates, undefined is returned once the timeout
\* has passed, and otherwise waitUntil goes to sleep
Attempt ==
    /\ lpc = "attempt"
    /\ \E outcome \in LensOutcomes :
        LET got == AddConfigAttempt(outcome)
        IN /\ lensOutcome' = outcome
           /\ lensResult' = got.value
           /\ lensError' = got.error
           /\ lpc' = IF got.error # Undefined THEN "threw"
                      ELSE IF got.value # <<>> THEN "returned"
                      ELSE IF elapsed >= CODELENS_TIMEOUT THEN "returned"
                      ELSE "sleeping"
    /\ UNCHANGED <<elapsed, tsVars, dbgVars>>

\* waitUntil sleeps for the retry interval; the attempt's locals are gone
Sleep ==
    /\ lpc = "sleeping"
    /\ elapsed' = elapsed + CODELENS_RETRY_INTERVAL
    /\ lensOutcome' = [kind |-> "none", lenses |-> <<>>]
    /\ lpc' = "attempt"
    /\ UNCHANGED <<lensResult, lensError, tsVars, dbgVars>>

NextLens ==
    \/ Attempt
    \/ Sleep

SpecLens == InitLens /\ [][NextLens]_vars

(***************************************************************************)
(* Properties of the launch flow                                           *)
(***************************************************************************)
\* the subprocesses started by the step from procs to procs'
Started(before, after) == {after[i] : i \in (DOMAIN after) \ (DOMAIN before)}

IsTscCommand(cmd) == \E dir \in {"", BuildDir} :
    cmd = "tsc --project " \o dir \o "/output/awsToolkitSamLocalResource"

\* C1: a call of makeTypescriptConfig, returning or throwing, starts no
\* subprocess and writes at most the temporary template; a tsc subprocess
\* is started only by the after-build callback of invokeTypescriptLambda.
C1_ConfigStartsNoSubprocess ==
    [][/\ (pc = "start" =>
            /\ procs' = procs
            /\ written' \in {written} \cup {Append(written, t) : t \in TmpTemplates})
       /\ (\E cmd \in Started(procs, procs') : IsTscCommand(cmd)) => pc = "afterBuild"]_vars

\* the config step returned without a subprocess and tsc ran from the callback
C1_Witness ==
    /\ pc = "built"
    /\ Len(procs) = 2 /\ procs[1] = "sam build" /\ IsTscCommand(procs[2])

\* C2: with baseBuildDir unset (undefined or empty) makeTypescriptConfig throws
\* 'invalid state: config.baseBuildDir was not set' before anything else: no
\* project-root lookup, no template written, the config object unchanged.
C2_UnsetBuildDirFailsFirst ==
    (pc # "start" /\ Falsy(input.baseBuildDir)) =>
        /\ pc = "failed"
        /\ error = "invalid state: config.baseBuildDir was not set"
        /\ lookups = 0
        /\ written = <<>>
        /\ procs = <<>>
        /\ launch = <<>>
        /\ config = input

\* the call failed on an empty baseBuildDir although the project root was to be discovered
C2_Witness ==
    /\ pc = "failed"
    /\ input.baseBuildDir = ""
    /\ input.codeRoot = Undefined
    /\ error = "invalid state: config.baseBuildDir was not set"

\* C3: whenever makeTypescriptConfig returns, the templatePath of the returned
\* config is the temporary template written by makeInputTemplate in that call,
\* whatever templatePath the input carried.
C3_TemplateAlwaysGenerated ==
    launch # <<>> =>
        /\ Len(written) >= 1
        /\ written[1] \in TmpTemplates
        /\ launch[1].templatePath = written[1]
        /\ config.templatePath = written[1]

\* a config that named the workspace template came back with the generated one
C3_Witness ==
    /\ pc = "configured"
    /\ input.templatePath = WorkspaceTemplate
    /\ launch[1].templatePath \in TmpTemplates
    /\ written = <<launch[1].templatePath>>

\* a TypeScript file: a regular file whose name ends in .ts
IsTypeScriptFile(node) ==
    /\ ~node.dir
    /\ Len(node.path[Len(node.path)]) >= 3
    /\ SubstrLast3(node.path[Len(node.path)]) = DotTs

ContainsTypeScriptFile(tree) == \E n \in tree : IsTypeScriptFile(n)

\* C4: compileTypeScript reaches the compile step (writes tsconfig.json, runs
\* tsc) iff the target is 'code' and the top level of codeRoot has an entry
\* tsconfig.json or the tree holds a TypeScript file; otherwise it writes
\* nothing, starts nothing and completes without error.
C4_CompileIffCodeAndTypeScript ==
    compiled.called =>
        LET wanted == /\ input.target = "code"
                      /\ (IncludesTsconfig(fs) \/ ContainsTypeScriptFile(fs))
        IN /\ (compiled.attempted <=> wanted)
           /\ (~wanted => /\ pc \in {"built", "done"}
                           /\ Len(written) = 1
                           /\ \A i \in DOMAIN procs : ~IsTscCommand(procs[i]))

\* C5: hasTypeScriptFilesRecursive(dir) is true iff a TypeScript file exists
\* in dir or in a directory nested under it at any depth.
C5_TrueIffTypeScriptFileExists ==
    compiled.found # <<>> => (compiled.found[1] <=> ContainsTypeScriptFile(fs))

(***************************************************************************)
(* Properties of startDebugger                                             *)
(***************************************************************************)
IsExpectedSession(session) ==
    /\ session.configuration.name = TestConfigName
    /\ session.configuration.runtime = ScenarioRuntime

\* the step is the termination of a debug session
SessionTerminates == events' = events + 1

\* C6: the success promise is fulfilled only by the termination of a session
\* with the expected name and runtime, a settled promise never changes, and
\* once the first terminated session that has a runtime is not the expected
\* one the promise is rejected with the validation message for good.
C6_SuccessOnlyByExpectedSession ==
    /\ [][/\ (success.state = "pending" /\ success'.state = "fulfilled") =>
                /\ SessionTerminates
                /\ IsExpectedSession(lastSession'[1])
           /\ (success.state # "pending" => success' = success)]_vars
    /\ [](firstRuntime # <<>> /\ ~IsExpectedSession(firstRuntime[1]) =>
            /\ success.state = "rejected"
            /\ success.reason # <<>>
            /\ success.reason[1].text = "Unexpected DebugSession"
            /\ success.reason[1].session = firstRuntime[1])

\* an unexpected session came first, the expected one later: still rejected
C6_Witness ==
    /\ events >= 2
    /\ firstRuntime # <<>> /\ ~IsExpectedSession(firstRuntime[1])
    /\ lastSession # <<>> /\ IsExpectedSession(lastSession[1])
    /\ success.state = "rejected"

EndEntries ==
    {"scenario 0.a END   api/nodejs10.x (ZIP): " \o s.name : s \in Sessions}
    \cup {"scenario 0.t END   template/nodejs10.x (ZIP): " \o s.name : s \in Sessions}

\* C7: every terminated session appends exactly one 'END' entry to
\* sessionLog; when its configuration has no runtime that is the only effect:
\* the success promise and the count of stopDebugger calls stay as they were.
C7_CoprocessIgnored ==
    [][SessionTerminates =>
        /\ Len(sessionLog') = Len(sessionLog) + 1
        /\ SubSeq(sessionLog', 1, Len(sessionLog)) = sessionLog
        /\ sessionLog'[Len(sessionLog')] \in EndEntries
        /\ (Falsy(lastSession'[1].configuration.runtime) =>
                /\ success' = success
                /\ stopCalls' = stopCalls
                /\ UNCHANGED <<dpc, target, listening, firstRuntime>>)]_vars

\* several coprocesses terminated, one of them under another name, while the
\* test awaits the promise: still pending, the debugger never stopped
C7_Witness ==
    /\ dpc = "awaiting"
    /\ events >= 2
    /\ firstRuntime = <<>>
    /\ lastSession # <<>> /\ lastSession[1].configuration.name # TestConfigName
    /\ success.state = "pending"
    /\ stopCalls = 0
    /\ Len(sessionLog) = events + 1

(***************************************************************************)
(* Properties of getAddConfigCodeLens                                      *)
(***************************************************************************)
\* a code lens whose command is the add-configuration one, with 3 arguments
IsWanted(codeLens) ==
    \E c \in Commands :
        /\ codeLens = [command |-> <<c>>]
        /\ c.command = AddConfigCommand
        /\ c.arguments # <<>> /\ Len(c.arguments[1]) = 3

\* what the attempt's getCodeLenses call gave holds no wanted code lens
NothingWanted(outcome) ==
    \A i \in DOMAIN outcome.lenses : ~IsWanted(outcome.lenses[i])

\* C8: getAddConfigCodeLens returns undefined or a non-empty list of code
\* lenses that all carry the add-configuration command with 3 arguments (the
\* wanted lenses of the attempt, in order); an attempt that found none, or
\* threw, is retried after CODELENS_RETRY_INTERVAL until CODELENS_TIMEOUT has
\* passed, and no exception of an attempt reaches the caller.
C8_AddConfigLensesOrUndefined ==
    /\ [](/\ lensError = Undefined
           /\ lpc # "threw"
           /\ (lensResult # <<>> =>
                /\ lpc = "returned"
                /\ Len(lensResult[1]) > 0
                /\ \A i \in DOMAIN lensResult[1] : IsWanted(lensResult[1][i])
                /\ lensResult[1] = SelectSeq(lensOutcome.lenses, IsWanted))
           /\ (lpc = "returned" /\ lensResult = <<>>) =>
                /\ elapsed >= CODELENS_TIMEOUT
                /\ NothingWanted(lensOutcome))
    /\ [][/\ (lpc = "attempt" /\ NothingWanted(lensOutcome')
                /\ elapsed < CODELENS_TIMEOUT) => lpc' = "sleeping"
           /\ (lpc = "sleeping" =>
                /\ lpc' = "attempt"
                /\ elapsed' = elapsed + CODELENS_RETRY_INTERVAL)]_vars

\* after a failed attempt and a retry, a list with one wanted lens among
\* others came back filtered
C8_Witness ==
    /\ lpc = "returned"
    /\ elapsed > 0
    /\ lensOutcome.kind = "list" /\ Len(lensOutcome.lenses) = 2
    /\ lensResult # <<>> /\ Len(lensResult[1]) = 1

====
